---- MODULE Spec2Model ----
(***************************************************************************)
(* hkn-officer-tracker: the attendance reconciliation of slackbot.py and   *)
(* attendance-tracker.py, the on-disk cache of slackbot.py and the two     *)
(* webhook handlers (http.server and Flask).                               *)
(*                                                                         *)
(* A text value that the code normalises (an HKN handle, a secret word) is *)
(* a sequence of one-character strings, so that str.strip() and            *)
(* str.lower() are computed and not assumed.  A DataFrame is a record      *)
(* [header, rows]: header is the sequence of column names and each row is  *)
(* a function from column name to cell.                                    *)
(***************************************************************************)
EXTENDS Integers, Sequences, FiniteSets, TLC

VARIABLES
    responses,          \* attendance-tracker run: the parsed responses sheet
    events,             \* attendance-tracker run: the parsed events sheet
    ran,                \* which aggregation has been applied to them
    attendance,         \* the DataFrame that aggregation saved
    sheetResponses,     \* the published responses spreadsheet (remote)
    sheetEvents,        \* the published events spreadsheet (remote)
    files,              \* responses.csv, events.csv, data/attendance.csv
    mtime,              \* modification time of each file
    now,                \* time.time()
    last                \* the last webhook request and how it ended

vars == <<responses, events, ran, attendance, sheetResponses, sheetEvents,
          files, mtime, now, last>>

aggVars == <<responses, events, ran, attendance>>
botVars == <<sheetResponses, sheetEvents, files, mtime, now, last>>

-----------------------------------------------------------------------------
(* Bounds of the model.                                                    *)

MaxResponses == 2
MaxEvents == 2
MaxSheetRows == 1
MaxTicks == 3

-----------------------------------------------------------------------------
(* Text.                                                                   *)

Ord(ch) ==
    CASE ch = " " -> 32
      [] ch = "A" -> 65
      [] ch = "B" -> 66
      [] ch = "Z" -> 90
      [] ch = "a" -> 97
      [] ch = "b" -> 98
      [] ch = "z" -> 122

LowerChar(ch) ==
    CASE ch = "A" -> "a"
      [] ch = "B" -> "b"
      [] ch = "Z" -> "z"
      [] OTHER -> ch

RECURSIVE LStrip(_)
LStrip(s) ==
    IF s # <<>> /\ Head(s) = " " THEN LStrip(Tail(s)) ELSE s

RECURSIVE RStrip(_)
RStrip(s) ==
    IF s # <<>> /\ s[Len(s)] = " " THEN RStrip(SubSeq(s, 1, Len(s) - 1)) ELSE s

\* str.strip()
Strip(s) == LStrip(RStrip(s))

\* str.lower()
Lower(s) == [i \in 1..Len(s) |-> LowerChar(s[i])]

\* a normaliser that forgets .str.lower()
StripOnly(s) == Strip(s)

\* .str.strip().str.lower()
StripLower(s) == Lower(Strip(s))

\* lexicographic order of two strings by code point
RECURSIVE StrLess(_, _)
StrLess(s, t) ==
    IF t = <<>> THEN FALSE
    ELSE IF s = <<>> THEN TRUE
    ELSE IF Ord(Head(s)) < Ord(Head(t)) THEN TRUE
    ELSE IF Ord(Head(s)) > Ord(Head(t)) THEN FALSE
    ELSE StrLess(Tail(s), Tail(t))

MinStr(S) == CHOOSE s \in S : \A t \in S \ {s} : StrLess(s, t)

\* the elements of a set of strings in ascending order
RECURSIVE SortedStrs(_)
SortedStrs(S) ==
    IF S = {} THEN <<>>
    ELSE LET m == MinStr(S) IN <<m>> \o SortedStrs(S \ {m})

-----------------------------------------------------------------------------
(* DataFrames.                                                             *)

HANDLE == "HKN Handle"
WEEK == "Week"
WORD == "Secret Word"
ACTIVITY == "Activity Type"

\* a missing cell (NaN) of a count column
NaN == -1

Range(f) == {f[i] : i \in DOMAIN f}

RECURSIVE Concat(_)
Concat(ss) == IF ss = <<>> THEN <<>> ELSE Head(ss) \o Concat(Tail(ss))

\* the seven activity types, in the order cache_attendance and main count them
Categories ==
    <<"HM", "Cookie Run", "Teaching Session", "CM", "GM",
      "Inter-Committee Duty", "QSM">>

CountColumn(column) == column \o "s Attended"

\* responses["HKN Handle"], responses["Secret Word"] and events["Secret Word"]
\* are stripped and lowercased; Week and Activity Type are left as read
NormalizeResponses(rs) ==
    [i \in 1..Len(rs) |->
        [rs[i] EXCEPT ![HANDLE] = StripLower(@), ![WORD] = StripLower(@)]]

NormalizeEvents(es) ==
    [i \in 1..Len(es) |-> [es[i] EXCEPT ![WORD] = StripLower(@)]]

\* the filter with the category test left out
FilterEventsAll(es, column) == es

\* events[events["Activity Type"] == column]
FilterEvents(es, column) ==
    SelectSeq(es, LAMBDA e : e[ACTIVITY] = column)

\* responses[["HKN Handle", "Week", "Secret Word"]][responses["Activity Type"] == column]
FilterResponses(rs, column) ==
    LET kept == SelectSeq(rs, LAMBDA r : r[ACTIVITY] = column)
    IN  [i \in 1..Len(kept) |->
            [c \in {HANDLE, WEEK, WORD} |-> kept[i][c]]]

\* inner merge on Week alone
MergeInnerWeekOnly(left, right) ==
    Concat([i \in 1..Len(left) |->
        LET hit == SelectSeq(right, LAMBDA e : e[WEEK] = left[i][WEEK])
        IN  [j \in 1..Len(hit) |-> left[i] @@ hit[j]]])

\* pd.merge(left, right, on=["Week", "Secret Word"], how="inner"): one row for
\* every pair of a left row and a right row with equal keys
MergeInner(left, right) ==
    Concat([i \in 1..Len(left) |->
        LET hit == SelectSeq(right, LAMBDA e :
                       e[WEEK] = left[i][WEEK] /\ e[WORD] = left[i][WORD])
        IN  [j \in 1..Len(hit) |-> left[i] @@ hit[j]]])

\* slackbot.py: merge, then groupby("HKN Handle").count(), keep the Week count
count_attendance(rs, es, column) ==
    LET filtered_events == FilterEvents(es, column)
        filtered_responses == FilterResponses(rs, column)
        valid_attendance == MergeInner(filtered_responses, filtered_events)
        keys == SortedStrs({valid_attendance[i][HANDLE] :
                               i \in 1..Len(valid_attendance)})
    IN  [header |-> <<HANDLE, CountColumn(column)>>,
         rows |-> [k \in 1..Len(keys) |->
            (HANDLE :> keys[k]) @@
            (CountColumn(column) :>
                Len(SelectSeq(valid_attendance,
                              LAMBDA v : v[HANDLE] = keys[k])))]]

\* attendance-tracker.py: groupby(["HKN Handle"]) of the filtered responses,
\* then the number of rows of each group's merge with the filtered events
tracker_count_attendance(rs, es, column) ==
    LET filtered_events == FilterEvents(es, column)
        filtered_responses == FilterResponses(rs, column)
        keys == SortedStrs({filtered_responses[i][HANDLE] :
                               i \in 1..Len(filtered_responses)})
    IN  [header |-> <<HANDLE, CountColumn(column)>>,
         rows |-> [k \in 1..Len(keys) |->
            (HANDLE :> keys[k]) @@
            (CountColumn(column) :>
                Len(MergeInner(
                        SelectSeq(filtered_responses,
                                  LAMBDA r : r[HANDLE] = keys[k]),
                        filtered_events)))]]

CountCols(df) == Tail(df.header)

NaNRow(df) == [c \in Range(CountCols(df)) |-> NaN]

HandlesOf(df) == {df.rows[i][HANDLE] : i \in 1..Len(df.rows)}

\* left.merge(right, how="inner", on="HKN Handle")
MergeOnHandleInner(left, right) ==
    [header |-> left.header \o CountCols(right),
     rows |-> Concat([i \in 1..Len(left.rows) |->
        LET hit == SelectSeq(right.rows,
                             LAMBDA r : r[HANDLE] = left.rows[i][HANDLE])
        IN  [j \in 1..Len(hit) |-> left.rows[i] @@ hit[j]]])]

\* left.merge(right, how="outer", on="HKN Handle"): the matching pairs, the
\* left rows without a partner and the right rows without a partner, missing
\* cells NaN
MergeOnHandleOuter(left, right) ==
    LET both == Concat([i \in 1..Len(left.rows) |->
            LET hit == SelectSeq(right.rows,
                           LAMBDA r : r[HANDLE] = left.rows[i][HANDLE])
            IN  IF hit = <<>>
                THEN <<left.rows[i] @@ NaNRow(right)>>
                ELSE [j \in 1..Len(hit) |-> left.rows[i] @@ hit[j]]])
        rightOnly == SelectSeq(right.rows,
                        LAMBDA r : r[HANDLE] \notin HandlesOf(left))
    IN  [header |-> left.header \o CountCols(right),
         rows |-> both \o
                  [j \in 1..Len(rightOnly) |-> rightOnly[j] @@ NaNRow(left)]]

\* .fillna(0)
Fillna(df) ==
    [df EXCEPT !.rows = [i \in 1..Len(df.rows) |->
        [c \in DOMAIN df.rows[i] |->
            IF c # HANDLE /\ df.rows[i][c] = NaN THEN 0 ELSE df.rows[i][c]]]]

\* sort_values("HKN Handle")
SortValues(df) ==
    LET keys == SortedStrs(HandlesOf(df))
    IN  [df EXCEPT !.rows = Concat([k \in 1..Len(keys) |->
            SelectSeq(df.rows, LAMBDA r : r[HANDLE] = keys[k])])]

RECURSIVE MergeAll(_)
MergeAll(tables) ==
    IF Len(tables) = 1 THEN tables[1]
    ELSE MergeOnHandleOuter(MergeAll(SubSeq(tables, 1, Len(tables) - 1)),
                            tables[Len(tables)])

\* slackbot.py cache_attendance, from the parsed frames to the frame it saves
Aggregate(rs, es) ==
    LET nr == NormalizeResponses(rs)
        ne == NormalizeEvents(es)
        counts == [c \in 1..Len(Categories) |->
                      count_attendance(nr, ne, Categories[c])]
    IN  SortValues(Fillna(MergeAll(counts)))   \* astype(int) keeps whole counts

\* attendance-tracker.py main, from the parsed frames to the frame it saves
TrackerAggregate(rs, es) ==
    LET nr == NormalizeResponses(rs)
        ne == NormalizeEvents(es)
        counts == [c \in 1..Len(Categories) |->
                      tracker_count_attendance(nr, ne, Categories[c])]
    IN  SortValues(Fillna(MergeAll(counts)))

-----------------------------------------------------------------------------
(* Inputs.                                                                 *)

Response(h, w, s, a) ==
    (HANDLE :> h) @@ (WEEK :> w) @@ (WORD :> s) @@ (ACTIVITY :> a)

Event(w, s, a) == (WEEK :> w) @@ (WORD :> s) @@ (ACTIVITY :> a)

ResponsePool ==
    { Response(<<"a", "b">>, 1, <<"a">>, "HM"),
      Response(<<"A", "b", " ">>, 1, <<" ", "A">>, "HM"),
      Response(<<"z">>, 1, <<"b">>, "HM"),
      Response(<<"z">>, 2, <<"a">>, "GM") }

EventPool ==
    { Event(1, <<"A", " ">>, "HM"),
      Event(2, <<"a">>, "GM"),
      Event(2, <<"a">>, "HM") }

None == [header |-> <<>>, rows |-> <<>>]

\* no sheet parsed and no aggregation applied yet
NoRun ==
    /\ responses = <<>>
    /\ events = <<>>
    /\ ran = "none"
    /\ attendance = None

AddResponse ==
    /\ ran = "none"
    /\ Len(responses) < MaxResponses
    /\ \E r \in ResponsePool : responses' = Append(responses, r)
    /\ UNCHANGED <<events, ran, attendance>>

AddEvent ==
    /\ ran = "none"
    /\ Len(events) < MaxEvents
    /\ \E e \in EventPool : events' = Append(events, e)
    /\ UNCHANGED <<responses, ran, attendance>>

RunCacheAttendance ==
    /\ ran = "none"
    /\ ran' = "slackbot"
    /\ attendance' = Aggregate(responses, events)
    /\ UNCHANGED <<responses, events>>

RunTrackerMain ==
    /\ ran = "none"
    /\ ran' = "tracker"
    /\ attendance' = TrackerAggregate(responses, events)
    /\ UNCHANGED <<responses, events>>

NextAgg ==
    \/ AddResponse /\ UNCHANGED botVars
    \/ AddEvent /\ UNCHANGED botVars
    \/ RunCacheAttendance /\ UNCHANGED botVars
    \/ RunTrackerMain /\ UNCHANGED botVars

-----------------------------------------------------------------------------
(* The cache and the webhook of slackbot.py.                               *)

one_week == 604800

\* the clock advances in steps of half a week
TickSeconds == one_week \div 2

NoFile == -1

Absent == [kind |-> "absent", header |-> <<>>, rows |-> <<>>]

\* bytes that are no CSV with the expected columns (an HTML error page)
Garbage == [kind |-> "garbage", header |-> <<>>, rows |-> <<>>]

\* DataFrame.to_csv(index=False)
ToCsv(df) == [kind |-> "csv", header |-> df.header, rows |-> df.rows]

\* pd.read_csv of a file that holds a CSV
ReadCsv(file) == [header |-> file.header, rows |-> file.rows]

ResponsesHeader == <<HANDLE, WEEK, WORD, ACTIVITY>>
EventsHeader == <<WEEK, WORD, ACTIVITY>>

\* what requests.get(url, timeout=10) can come back with when the sheet
\* holds `body`: an exception, a success, or a non-success status whose body
\* is an error page or CSV text; the code never reads the status
GetOutcomes(body) ==
    { [status |-> "ConnectionError", body |-> Absent],
      [status |-> "200", body |-> body],
      [status |-> "503", body |-> Garbage],
      [status |-> "503", body |-> body] }

\* the rebuild leaves the old summary file in place
KeepAttendance(fs, mt, t, df) == [files |-> fs, mtime |-> mt]

\* attendance.sort_values("HKN Handle").to_csv(OUT_PATH / "attendance.csv")
SaveAttendance(fs, mt, t, df) ==
    [files |-> [fs EXCEPT !.attendance = ToCsv(df)],
     mtime |-> [mt EXCEPT !.attendance = t]]

\* cache_attendance: both GETs, then both raw files, then read them back,
\* normalise, count, merge and save.  raised is the exception that ended it;
\* disk is whether OUT_PATH / "attendance.csv" can be written (to_csv raises
\* OSError when the disk is full or the data directory is gone).
cache_attendance(fs, mt, t, responses_req, events_req, disk) ==
    IF responses_req.status = "ConnectionError"
           \/ events_req.status = "ConnectionError"
    THEN [files |-> fs, mtime |-> mt, raised |-> "ConnectionError"]
    ELSE LET fs1 == [fs EXCEPT !.responses = responses_req.body,
                               !.events = events_req.body]
             mt1 == [mt EXCEPT !.responses = t, !.events = t]
         IN  IF fs1.responses.kind # "csv" \/ fs1.events.kind # "csv"
             THEN [files |-> fs1, mtime |-> mt1, raised |-> "ParserError"]
             ELSE IF disk # "ok"
             THEN [files |-> fs1, mtime |-> mt1, raised |-> "OSError"]
             ELSE LET saved == SaveAttendance(fs1, mt1, t,
                                  Aggregate(ReadCsv(fs1.responses).rows,
                                            ReadCsv(fs1.events).rows))
                  IN  [files |-> saved.files, mtime |-> saved.mtime,
                       raised |-> "none"]

\* fetch_attendance: `if True:` rebuilds on every call, then reads the file
fetch_attendance(fs, mt, t, responses_req, events_req, disk) ==
    cache_attendance(fs, mt, t, responses_req, events_req, disk)

\* get_requirements after fetch_attendance returned attendance_df: the
\* records whose handle is user_name, [0] of them
get_requirements(attendance_df, user_name) ==
    LET records == SelectSeq(attendance_df.rows,
                             LAMBDA r : r[HANDLE] = user_name)
    IN  IF records = <<>>
        THEN [raised |-> "IndexError", payload |-> <<>>]
        ELSE [raised |-> "none", payload |-> records[1]]

\* chat_postEphemeral: delivered, rejected by the API (SlackApiError, caught
\* and printed) or failed in transport (URLError, not caught)
DiskOutcomes == {"ok", "OSError"}

DeliveryOutcomes == {"ok", "SlackApiError", "URLError"}

send_message(outcome) ==
    [raised |-> IF outcome = "URLError" THEN "URLError" ELSE "none"]

\* the status the client gets: MyRequestHandler sends 200 before it does
\* anything else; the Flask route returns ("", 200) only if nothing raised
ResponseStatus(handler, raised) ==
    IF handler = "http.server" THEN 200
    ELSE IF raised = "none" THEN 200 ELSE 500

UserNames == {<<"a", "b">>, <<"b">>}

SheetResponsePool ==
    { Response(<<"A", "b", " ">>, 1, <<" ", "A">>, "HM"),
      Response(<<"z">>, 2, <<"a">>, "GM") }

SheetEventPool ==
    { Event(1, <<"a">>, "HM"),
      Event(2, <<"A", " ">>, "GM") }

NoRequest ==
    [handler |-> "none", user |-> <<>>, responses_req |-> "none",
     events_req |-> "none", rebuild |-> "none", lookup |-> "none",
     delivery |-> "none", raised |-> "none", status |-> 0]

NoFiles ==
    /\ files = [responses |-> Absent, events |-> Absent, attendance |-> Absent]
    /\ mtime = [responses |-> NoFile, events |-> NoFile, attendance |-> NoFile]
    /\ now = 0
    /\ last = NoRequest

\* empty sheets, nothing parsed, no file on disk
Init ==
    /\ NoRun
    /\ sheetResponses = <<>>
    /\ sheetEvents = <<>>
    /\ NoFiles

\* the cache under a running clock: the sheets stay as they are
InitClock ==
    /\ NoRun
    /\ sheetResponses \in {<<r>> : r \in SheetResponsePool}
    /\ sheetEvents \in {<<e>> : e \in SheetEventPool}
    /\ NoFiles

\* an officer submits the attendance form
SubmitResponse ==
    /\ Len(sheetResponses) < MaxSheetRows
    /\ \E r \in SheetResponsePool : sheetResponses' = Append(sheetResponses, r)
    /\ UNCHANGED <<sheetEvents, files, mtime, now, last>>

\* an event is logged in the events sheet
LogEvent ==
    /\ Len(sheetEvents) < MaxSheetRows
    /\ \E e \in SheetEventPool : sheetEvents' = Append(sheetEvents, e)
    /\ UNCHANGED <<sheetResponses, files, mtime, now, last>>

Tick ==
    /\ now < MaxTicks * TickSeconds
    /\ now' = now + TickSeconds
    /\ UNCHANGED <<sheetResponses, sheetEvents, files, mtime, last>>

\* do_POST after the rebuild ended as `cached`: the lookup, the delivery and
\* the HTTP status the client gets
Reply(handler, user_name, responses_req, events_req, cached, outcome) ==
    LET fetched == cached.raised = "none"
        req == IF fetched
               THEN get_requirements(ReadCsv(cached.files.attendance),
                                     user_name)
               ELSE [raised |-> cached.raised, payload |-> <<>>]
        sent == fetched /\ req.raised = "none"
        raised == IF sent THEN send_message(outcome).raised ELSE req.raised
    IN  [handler |-> handler,
         user |-> user_name,
         responses_req |-> responses_req.status,
         events_req |-> IF responses_req.status = "ConnectionError"
                        THEN "none" ELSE events_req.status,
         rebuild |-> IF fetched THEN "saved" ELSE "failed",
         lookup |-> IF ~fetched THEN "none"
                    ELSE IF req.raised = "none" THEN "found"
                    ELSE req.raised,
         delivery |-> IF sent THEN outcome ELSE "none",
         raised |-> raised,
         status |-> ResponseStatus(handler, raised)]

\* the disk and the Slack API answer only when the run gets to them
DiskChoices(responses_req, events_req) ==
    IF responses_req.body.kind = "csv" /\ events_req.body.kind = "csv"
    THEN DiskOutcomes ELSE {"ok"}

DeliveryChoices(cached, user_name) ==
    IF /\ cached.raised = "none"
       /\ get_requirements(ReadCsv(cached.files.attendance),
                           user_name).raised = "none"
    THEN DeliveryOutcomes ELSE {"ok"}

\* do_POST of either handler for a well-formed slash command of user_name
do_POST(handler) ==
    \E responses_req \in GetOutcomes(ToCsv([header |-> ResponsesHeader,
                                           rows |-> sheetResponses])) :
    \E events_req \in GetOutcomes(ToCsv([header |-> EventsHeader,
                                        rows |-> sheetEvents])) :
    \E disk \in DiskChoices(responses_req, events_req) :
    \E cached \in {fetch_attendance(files, mtime, now, responses_req,
                                    events_req, disk)} :
    \E user_name \in UserNames :
    \E outcome \in DeliveryChoices(cached, user_name) :
        /\ files' = cached.files
        /\ mtime' = cached.mtime
        /\ last' = Reply(handler, user_name, responses_req, events_req,
                         cached, outcome)
        /\ UNCHANGED <<sheetResponses, sheetEvents, now>>

HttpServerPost == do_POST("http.server")

FlaskPost == do_POST("flask")

Next ==
    \/ SubmitResponse /\ UNCHANGED aggVars
    \/ LogEvent /\ UNCHANGED aggVars
    \/ HttpServerPost /\ UNCHANGED aggVars
    \/ FlaskPost /\ UNCHANGED aggVars

NextClock ==
    \/ Tick /\ UNCHANGED aggVars
    \/ HttpServerPost /\ UNCHANGED aggVars
    \/ FlaskPost /\ UNCHANGED aggVars

\* the aggregation alone, applied to sheets built row by row
SpecAgg == Init /\ [][NextAgg]_vars

SpecClock == InitClock /\ [][NextClock]_vars

Spec == Init /\ [][Next]_vars

-----
(* The aggregation claims.                                                 *)

\* the aggregation that produced `attendance`
AggOf(kind, rs, es) ==
    IF kind = "tracker" THEN TrackerAggregate(rs, es) ELSE Aggregate(rs, es)

\* the pairs (self-report i, official event j) of person p that are a valid
\* attendance in category c
MatchPairs(p, c) ==
    LET nr == NormalizeResponses(responses)
        ne == NormalizeEvents(events)
    IN  {ij \in (1..Len(responses)) \X (1..Len(events)) :
            /\ nr[ij[1]][HANDLE] = p
            /\ nr[ij[1]][ACTIVITY] = c
            /\ ne[ij[2]][ACTIVITY] = c
            /\ nr[ij[1]][WEEK] = ne[ij[2]][WEEK]
            /\ nr[ij[1]][WORD] = ne[ij[2]][WORD]}

Persons == {StripLower(responses[i][HANDLE]) : i \in 1..Len(responses)}

CategorySet == Range(Categories)

HasMatch(p) == \E c \in CategorySet : MatchPairs(p, c) # {}

RowsOf(df, p) == {i \in 1..Len(df.rows) : df.rows[i][HANDLE] = p}

\* the count of person p in category c, 0 when p has no row
Cell(df, p, c) ==
    IF RowsOf(df, p) = {} THEN 0
    ELSE df.rows[CHOOSE i \in RowsOf(df, p) : TRUE][CountColumn(c)]

\* C5: the saved summary has exactly one row for every person with a valid
\* match in some category, no two rows share a handle, and every row has a
\* whole non-negative count in each of the seven columns, 0 where the person
\* has no match in that category.
C5_SummaryShape ==
    ran # "none" =>
        /\ \A p \in Persons : HasMatch(p) => Cardinality(RowsOf(attendance, p)) = 1
        /\ \A i, j \in 1..Len(attendance.rows) :
              attendance.rows[i][HANDLE] = attendance.rows[j][HANDLE] => i = j
        /\ \A i \in 1..Len(attendance.rows) : \A c \in CategorySet :
              /\ CountColumn(c) \in DOMAIN attendance.rows[i]
              /\ attendance.rows[i][CountColumn(c)] \in Nat
              /\ MatchPairs(attendance.rows[i][HANDLE], c) = {}
                    => attendance.rows[i][CountColumn(c)] = 0

\* two persons with matches, each in one category only
C5_Witness ==
    /\ ran # "none"
    /\ \E i, j \in 1..Len(attendance.rows) :
          /\ i # j
          /\ attendance.rows[i][CountColumn("HM")] > 0
          /\ attendance.rows[i][CountColumn("GM")] = 0
          /\ attendance.rows[j][CountColumn("HM")] = 0
          /\ attendance.rows[j][CountColumn("GM")] > 0

\* C6: every row of the summary belongs to a person with at least one valid
\* match; a person whose self-reports match no official event has no row.
C6_NoRowWithoutMatch ==
    ran # "none" =>
        \A i \in 1..Len(attendance.rows) : HasMatch(attendance.rows[i][HANDLE])

OnlyCategory(rows, c) == SelectSeq(rows, LAMBDA r : r[ACTIVITY] = c)

\* some self-report has the week and secret word of an event of another
\* category
CrossCategoryKey ==
    LET nr == NormalizeResponses(responses)
        ne == NormalizeEvents(events)
    IN  \E i \in 1..Len(nr) : \E j \in 1..Len(ne) :
            /\ nr[i][WEEK] = ne[j][WEEK]
            /\ nr[i][WORD] = ne[j][WORD]
            /\ nr[i][ACTIVITY] # ne[j][ACTIVITY]

\* C8: the counts of a category are those computed from the self-reports
\* and events of that category alone; records of another category, also
\* ones with the same (week, secret word), add nothing to them.
C8_CategoryIsolation ==
    ran # "none" =>
        \A c \in CategorySet :
            LET alone == AggOf(ran, OnlyCategory(responses, c),
                               OnlyCategory(events, c))
            IN  \A p \in Persons : Cell(attendance, p, c) = Cell(alone, p, c)

C8_Witness ==
    /\ ran # "none"
    /\ CrossCategoryKey
    /\ \E i \in 1..Len(attendance.rows) :
          /\ attendance.rows[i][CountColumn("HM")] = 1
          /\ attendance.rows[i][CountColumn("GM")] = 0

ToggleChar(ch) ==
    CASE ch = "a" -> "A"
      [] ch = "b" -> "B"
      [] ch = "z" -> "Z"
      [] ch = "A" -> "a"
      [] ch = "B" -> "b"
      [] ch = "Z" -> "z"
      [] OTHER -> ch

\* the strings that differ from s by one leading or trailing blank or by the
\* case of one letter
TextVariants(s) ==
    {<<" ">> \o s, s \o <<" ">>}
        \cup {[s EXCEPT ![k] = ToggleChar(@)] : k \in 1..Len(s)}

\* the datasets that differ from rows in column col of one row that way
RowVariants(rows, col) ==
    UNION {{[rows EXCEPT ![i][col] = t] : t \in TextVariants(rows[i][col])} :
              i \in 1..Len(rows)}

\* C9: a dataset that differs from the input only in the case or the
\* surrounding whitespace of a handle or of a secret word yields the same
\* summary.
C9_NormalizationEquivalence ==
    ran # "none" =>
        /\ \A rs \in RowVariants(responses, HANDLE) \cup RowVariants(responses, WORD) :
              AggOf(ran, rs, events) = attendance
        /\ \A es \in RowVariants(events, WORD) :
              AggOf(ran, responses, es) = attendance

\* two raw handles that differ in case and whitespace are one row with both
\* attendances, matched through secret words that differ the same way
C9_Witness ==
    /\ ran # "none"
    /\ \E i, j \in 1..Len(responses) :
          /\ responses[i][HANDLE] # responses[j][HANDLE]
          /\ StripLower(responses[i][HANDLE]) = StripLower(responses[j][HANDLE])
          /\ responses[i][WORD] # responses[j][WORD]
          /\ Cell(attendance, StripLower(responses[i][HANDLE]), "HM") >= 2
    /\ Len(attendance.rows) = 1

-----------------------------------------------------------------------------
(* The cache and webhook claims.                                           *)

Summary == ReadCsv(files.attendance)

\* C1: a lookup for a handle without a row in the summary ends without an
\* uncaught exception and without a row being returned.
C1_IdentityNotFound ==
    (last.rebuild = "saved" /\ RowsOf(Summary, last.user) = {}) =>
        /\ last.raised # "IndexError"
        /\ last.lookup # "found"

\* the summary file exists and is no older than the threshold
Fresh ==
    /\ files.attendance.kind # "absent"
    /\ now - mtime.attendance <= one_week

\* C2: while the summary file exists and is within the threshold, a request
\* performs no rebuild: no fetch and no file write.
C2_RebuildOnlyWhenStale ==
    [][Fresh =>
        /\ files' = files
        /\ mtime' = mtime
        /\ (last' # last => last'.rebuild = "none")]_vars

\* C3: every POST is answered with status 200.
C3_AlwaysSuccess ==
    last.handler # "none" => last.status = 200

FetchFailed ==
    \/ last.responses_req \in {"ConnectionError", "503"}
    \/ last.events_req \in {"ConnectionError", "503"}

\* C4: a rebuild in which a fetch failed, by an exception or by a
\* non-success status, saves no summary.
C4_NoSummaryFromFailedFetch ==
    FetchFailed => last.rebuild # "saved"

\* the three files exist and the two raw snapshots are readable CSV
AllFilesExist ==
    /\ files.responses.kind = "csv"
    /\ files.events.kind = "csv"
    /\ files.attendance.kind # "absent"

SummaryMatchesSnapshots ==
    /\ files.responses.kind = "csv"
    /\ files.events.kind = "csv"
    /\ files.attendance =
           ToCsv(Aggregate(ReadCsv(files.responses).rows,
                           ReadCsv(files.events).rows))

====
